---- MODULE Spec2Model ----
(***************************************************************************)
(* Model of cheroot/__main__.py: the command line bootstrap of the Cheroot *)
(* WSGI server.  Strings are sequences of one-character strings, paths are *)
(* sequences of directory names (the root is the empty sequence), Python   *)
(* values are records tagged with their type in the field "kind".          *)
(***************************************************************************)
EXTENDS Integers, Sequences, FiniteSets, TLC

\* ------------------------------------------------------------------ bounds

\* Longest bind / locator string the string specification draws.
MaxLen == 4

\* Deepest directory of the file system (a chdir below it fails).
MaxDepth == 1

\* Number of times main() is called in one process.
MaxRuns == 2

\* ------------------------------------------------------------- characters

None == [kind |-> "None"]

Chars == {"a", ":", "0", "7", " ", "\n"}

Digits == {"0", "1", "2", "3", "4", "5", "6", "7", "8", "9"}

\* The characters the regular expression class \s matches.
Whitespace == {" ", "\t", "\n", "\r"}

IsDigit(c) == c \in Digits

IsNonSpace(c) == c \notin Whitespace

DigitVal(c) ==
    CASE c = "0" -> 0 [] c = "1" -> 1 [] c = "2" -> 2 [] c = "3" -> 3
      [] c = "4" -> 4 [] c = "5" -> 5 [] c = "6" -> 6 [] c = "7" -> 7
      [] c = "8" -> 8 [] c = "9" -> 9

Slice(s, i, j) == [k \in 1..(j - i + 1) |-> s[i + k - 1]]

RECURSIVE int(_)
\* int(port): the base-10 value of a string of digits.
int(s) ==
    IF Len(s) = 0 THEN 0
    ELSE 10 * int(Slice(s, 1, Len(s) - 1)) + DigitVal(s[Len(s)])

RECURSIVE StringsOfLen(_)
StringsOfLen(n) ==
    IF n = 0 THEN {<<>>}
    ELSE {Append(s, c) : s \in StringsOfLen(n - 1), c \in Chars}

Strings == UNION {StringsOfLen(n) : n \in 0..MaxLen}

\* ------------------------------------------------------------- RE_ADDRESS

\* Where the pattern may end: `$' matches at the end of the string and
\* just before a newline that is the last character.
EndPositions(s) ==
    {Len(s)} \cup (IF Len(s) > 0 /\ s[Len(s)] = "\n" THEN {Len(s) - 1} ELSE {})

\* The pattern with (\S) for (\S+): a host of one character only.
Splits_OneCharHost(s) ==
    {<<i, e>> \in {2} \X EndPositions(s) :
        /\ Len(s) >= 2
        /\ s[i] = ":"
        /\ IsNonSpace(s[1])
        /\ e > i
        /\ \A k \in (i + 1)..e : IsDigit(s[k])}

\* The pattern with ([^\s:]+) for (\S+): no colon inside the host.
Splits_NoColonHost(s) ==
    {<<i, e>> \in (1..Len(s)) \X EndPositions(s) :
        /\ s[i] = ":"
        /\ i > 1
        /\ \A k \in 1..(i - 1) : IsNonSpace(s[k]) /\ s[k] # ":"
        /\ e > i
        /\ \A k \in (i + 1)..e : IsDigit(s[k])}

\* The ways r'^(\S+)(?::)([0-9]+)$' matches s: i is the position of the colon
\* the group (?::) takes, e the position of the last digit.
Splits(s) ==
    {<<i, e>> \in (1..Len(s)) \X EndPositions(s) :
        /\ s[i] = ":"
        /\ i > 1
        /\ \A k \in 1..(i - 1) : IsNonSpace(s[k])
        /\ e > i
        /\ \A k \in (i + 1)..e : IsDigit(s[k])}

\* (\S+) is greedy: of the ways to match, the one with the longest host.
GreedySplit(s) ==
    CHOOSE p \in Splits(s) : \A q \in Splits(s) : q[1] <= p[1]

RE_ADDRESS(s) ==
    IF Splits(s) = {} THEN None
    ELSE LET p == GreedySplit(s)
         IN  [kind |-> "match",
              groups |-> <<Slice(s, 1, p[1] - 1), Slice(s, p[1] + 1, p[2])>>]

\* ---------------------------------------------------------- type converters

FirstColon(s) == CHOOSE i \in 1..Len(s) : s[i] = ":" /\ \A k \in 1..(i - 1) : s[k] # ":"

application == <<"a", "p", "p", "l", "i", "c", "a", "t", "i", "o", "n">>

wsgi_app_path(string) ==
    IF \E i \in 1..Len(string) : string[i] = ":"
    THEN [kind |-> "tuple",
          mod_path |-> Slice(string, 1, FirstColon(string) - 1),
          app_path |-> Slice(string, FirstColon(string) + 1, Len(string))]
    ELSE [kind |-> "tuple", mod_path |-> string, app_path |-> application]

wsgi_bind_addr(string) ==
    LET match == RE_ADDRESS(string)
    IN  IF match # None
        THEN [kind |-> "tuple", addr |-> match.groups[1], port |-> int(match.groups[2])]
        ELSE [kind |-> "str", value |-> string]

\* ------------------------------------------------------------------ state

VARIABLES
    pc,            \* where main() stands: idle, parsed, env, resolved,
                   \* constructed, started, done
    runs,          \* calls of main() so far
    args,          \* the command line of this call
    raw_args,      \* the argparse namespace (None before parse_args returns)
    cwd,           \* os.getcwd()
    sys_path,      \* sys.path
    sys_modules,   \* the module paths already imported
    setups,        \* the directories the calls so far changed into, in order
    app,           \* the application object eval() returned
    server_args,   \* the keyword arguments handed to Server()
    server,        \* the Server object (None before it is constructed)
    calls,         \* the calls this run made on Server, in order
    start_result,  \* how server.start() ended
    outcome,       \* how main() ended (None while it runs)
    string,        \* the argument of a type converter called on its own
    result         \* what that converter returned

vars == <<pc, runs, args, raw_args, cwd, sys_path, sys_modules, setups, app,
          server_args, server, calls, start_result, outcome, string, result>>

PyStr(s) == [kind |-> "str", value |-> s]

PyInt(n) == [kind |-> "int", value |-> n]

Returned == [kind |-> "return"]

\* A local name main() has not assigned yet.
Unbound == [kind |-> "unbound"]

Raise(exc) == [kind |-> "raise", exc |-> exc]

\* ------------------------------------------------------------- the parser

\* dest names of the options whose default is None.
IntFlags == {"numthreads", "max", "timeout", "shutdown_timeout",
             "request_queue_size", "accepted_queue_size", "accepted_queue_timeout"}

OptFlags == {"server_name"} \cup IntFlags

Dests == {"_wsgi_app", "bind_addr", "_chdir"} \cup OptFlags

\* default='127.0.0.1:8000'
DefaultBind == <<"1", "2", "7", ".", "0", ".", "0", ".", "1", ":", "8", "0", "0", "0">>

\* default='.': a relative path with no component.
Dot == [abs |-> FALSE, parts |-> <<>>]

\* type=int on a command line word: a ValueError is a usage error.
type_int(word) ==
    IF Len(word) > 0 /\ \A k \in 1..Len(word) : IsDigit(word[k])
    THEN PyInt(int(word))
    ELSE [kind |-> "ValueError"]

\* What parse_args makes of one option: its default when absent, its type
\* applied to the word otherwise.
Convert(dest, word) ==
    CASE dest = "_wsgi_app" -> wsgi_app_path(word.value)
      [] dest = "bind_addr" ->
            wsgi_bind_addr(IF word = None THEN DefaultBind ELSE word.value)
      [] dest = "_chdir" -> IF word = None THEN Dot ELSE word
      [] dest = "server_name" -> word
      [] OTHER -> IF word = None THEN None ELSE type_int(word.value)

\* argv is a function from Dests to None (absent) or the word given.
UsageError(argv) ==
    \/ argv["_wsgi_app"] = None
    \/ \E f \in IntFlags : argv[f] # None /\ type_int(argv[f].value).kind = "ValueError"

parse_args(argv) == [dest \in Dests |-> Convert(dest, argv[dest])]

\* The command lines the model draws.
AppWords == {None, PyStr(<<"m">>), PyStr(<<"m", ":", "f">>)}

BindWords == {None, PyStr(<<"a", ":", "9", "9", "9", "9", "9">>), PyStr(<<"/", "s">>)}

ChdirWords == {None, [abs |-> FALSE, parts |-> <<"a">>], [abs |-> TRUE, parts |-> <<"a">>]}

IntWord == PyStr(<<"8">>)

BadWord == PyStr(<<"x">>)

NameWord == PyStr(<<"n">>)

\* Every subset of the options supplied; at most one of them malformed.
Argvs ==
    {[dest \in Dests |->
        CASE dest = "_wsgi_app" -> a
          [] dest = "bind_addr" -> b
          [] dest = "_chdir" -> c
          [] dest = "server_name" -> IF dest \in supplied THEN NameWord ELSE None
          [] OTHER -> IF dest = bad THEN BadWord
                      ELSE IF dest \in supplied THEN IntWord ELSE None] :
     a \in AppWords, b \in BindWords, c \in ChdirWords,
     supplied \in SUBSET OptFlags, bad \in {"none"} \cup IntFlags}

\* --------------------------------------------------------- the environment

Lib == <<"lib">>

RECURSIVE PathsOfDepth(_)
PathsOfDepth(n) ==
    IF n = 0 THEN {<<>>} ELSE {Append(p, "a") : p \in PathsOfDepth(n - 1)}

\* The directories that exist.
Dirs == UNION {PathsOfDepth(n) : n \in 0..MaxDepth}

abspath(path) == IF path.abs THEN path.parts ELSE cwd \o path.parts

Occurrences(seq, x) == Cardinality({i \in 1..Len(seq) : seq[i] = x})

InPath(p) == Occurrences(sys_path, p) > 0

\* The insertion without the presence test.
InsertPath_NoCheck(chdir) == <<chdir>> \o sys_path

\* if chdir not in sys.path: sys.path.insert(0, chdir)
InsertPath(chdir) == IF InPath(chdir) THEN sys_path ELSE <<chdir>> \o sys_path

\* What import_module and eval may do; the module is the user's.
ImportOutcomes == {"ok", "ImportError"}

EvalOutcomes == {"callable", "None", "noncallable", "raise"}

\* ---------------------------------------------------------------- Server

\* Server(**server_args) returns the object or raises.
ConstructOutcomes == {Returned, Raise("ServerError")}

\* server.start() blocks; it returns, is interrupted by the user, or fails.
StartOutcomes ==
    {Returned, Raise("KeyboardInterrupt"), Raise("OSError"), Raise("RuntimeError")}

\* server.stop() returns: the server's contract names no failure of it.
StopOutcomes == {Returned}

\* -------------------------------------------------------------- main()

\* The dests with k.startswith('_').
PrivateDests == {"_wsgi_app", "_chdir"}

\* The comprehension without "and v is not None".
Kept_WithNone(ns) == {k \in DOMAIN ns : k \notin PrivateDests}

\* {k: v for k, v in vars(raw_args).items()
\*  if (not k.startswith('_')) and v is not None}
Kept(ns) == {k \in DOMAIN ns : k \notin PrivateDests /\ ns[k] # None}

\* server_args['wsgi_app'] = app
ServerArgs(ns, application_object) ==
    [k \in Kept(ns) \cup {"wsgi_app"} |->
        IF k = "wsgi_app" THEN application_object ELSE ns[k]]

\* The test without its "if app is None" branch.
CheckApp_NoNoneTest(value) ==
    IF value.kind # "callable" THEN Raise("TypeError") ELSE Returned

\* if app is None: raise NameError / elif not callable(app): raise TypeError
CheckApp(value) ==
    IF value = None THEN Raise("NameError")
    ELSE IF value.kind # "callable" THEN Raise("TypeError")
    ELSE Returned

\* try/finally without the except clause: the interrupt propagates too.
AfterStop_NoExcept(how) == IF how.kind = "raise" THEN how ELSE Returned

\* except KeyboardInterrupt: pass -- what is still propagating when the
\* finally clause has run.
AfterStop(how) ==
    IF how.kind = "raise" /\ how.exc # "KeyboardInterrupt" THEN how ELSE Returned

\* main() ends: it returns or an exception leaves it.
Finish(how) ==
    /\ pc' = "done"
    /\ outcome' = how
    /\ args' = None
    /\ raw_args' = None

\* parse_args called after the search path was set up for the default
\* directory: a usage error then leaves sys.path changed.
ParseArgs_AfterSetup ==
    /\ pc = "idle"
    /\ runs < MaxRuns
    /\ runs' = runs + 1
    /\ sys_path' = InsertPath(cwd)
    /\ \E argv \in Argvs :
         \/ /\ UsageError(argv)
            /\ Finish(Raise("SystemExit"))
         \/ /\ ~UsageError(argv)
            /\ args' = argv
            /\ raw_args' = parse_args(argv)
            /\ pc' = "parsed"
            /\ outcome' = None
    /\ UNCHANGED <<cwd, sys_modules, setups, app, server_args,
                   server, calls, start_result, string, result>>

ParseArgs ==
    /\ pc = "idle"
    /\ runs < MaxRuns
    /\ runs' = runs + 1
    /\ \E argv \in Argvs :
         \/ /\ UsageError(argv)
            /\ Finish(Raise("SystemExit"))
         \/ /\ ~UsageError(argv)
            /\ args' = argv
            /\ raw_args' = parse_args(argv)
            /\ pc' = "parsed"
            /\ outcome' = None
    /\ UNCHANGED <<cwd, sys_path, sys_modules, setups, app, server_args,
                   server, calls, start_result, string, result>>

EnvSetup ==
    /\ pc = "parsed"
    /\ LET chdir == abspath(raw_args["_chdir"])
       IN  \/ /\ chdir \notin Dirs
              /\ Finish(Raise("OSError"))
              /\ UNCHANGED <<cwd, sys_path, setups>>
           \/ /\ chdir \in Dirs
              /\ cwd' = chdir
              /\ sys_path' = InsertPath(chdir)
              /\ setups' = Append(setups, chdir)
              /\ pc' = "env"
              /\ UNCHANGED <<args, raw_args, outcome>>
    /\ UNCHANGED <<runs, sys_modules, app, server_args, server, calls,
                   start_result, string, result>>

Resolve ==
    /\ pc = "env"
    /\ \E imported \in ImportOutcomes :
         \/ /\ imported = "ImportError"
            /\ Finish(Raise("ImportError"))
            /\ UNCHANGED <<sys_modules, app>>
         \/ /\ imported = "ok"
            /\ sys_modules' = sys_modules \cup {raw_args["_wsgi_app"].mod_path}
            /\ \E value \in EvalOutcomes :
                 \/ /\ value = "raise"
                    /\ Finish(Raise("EvalError"))
                    /\ UNCHANGED app
                 \/ /\ value # "raise"
                    /\ app' = (IF value = "None" THEN None ELSE [kind |-> value])
                    /\ \/ /\ CheckApp(app') = Returned
                          /\ pc' = "resolved"
                          /\ UNCHANGED <<args, raw_args, outcome>>
                       \/ /\ CheckApp(app') # Returned
                          /\ Finish(CheckApp(app'))
    /\ UNCHANGED <<runs, cwd, sys_path, setups, server_args, server, calls,
                   start_result, string, result>>

\* Server() called inside the try statement: stop() runs on its failure too.
Construct_InsideTry ==
    /\ pc = "resolved"
    /\ server_args' = ServerArgs(raw_args, app)
    /\ \E how \in ConstructOutcomes :
         \/ /\ how = Returned
            /\ calls' = Append(calls, "Server")
            /\ server' = [kind |-> "Server"]
            /\ pc' = "constructed"
            /\ UNCHANGED <<args, raw_args, outcome>>
         \/ /\ how # Returned
            /\ calls' = calls \o <<"Server", "stop">>
            /\ Finish(how)
            /\ UNCHANGED server
    /\ UNCHANGED <<runs, cwd, sys_path, sys_modules, setups, app,
                   start_result, string, result>>

Construct ==
    /\ pc = "resolved"
    /\ server_args' = ServerArgs(raw_args, app)
    /\ calls' = Append(calls, "Server")
    /\ \E how \in ConstructOutcomes :
         \/ /\ how = Returned
            /\ server' = [kind |-> "Server"]
            /\ pc' = "constructed"
            /\ UNCHANGED <<args, raw_args, outcome>>
         \/ /\ how # Returned
            /\ Finish(how)
            /\ UNCHANGED server
    /\ UNCHANGED <<runs, cwd, sys_path, sys_modules, setups, app,
                   start_result, string, result>>

Start ==
    /\ pc = "constructed"
    /\ calls' = Append(calls, "start")
    /\ \E how \in StartOutcomes : start_result' = how
    /\ pc' = "started"
    /\ UNCHANGED <<runs, args, raw_args, cwd, sys_path, sys_modules, setups,
                   app, server_args, server, outcome, string, result>>

\* stop() after the try statement instead of in its finally clause: an
\* error of start() leaves main() without it.
Stop_NoFinally ==
    /\ pc = "started"
    /\ \E stopped \in StopOutcomes :
         /\ stopped = Returned
         /\ calls' = (IF AfterStop(start_result) = Returned
                      THEN Append(calls, "stop") ELSE calls)
         /\ Finish(AfterStop(start_result))
    /\ UNCHANGED <<runs, cwd, sys_path, sys_modules, setups, app,
                   server_args, server, start_result, string, result>>

\* except KeyboardInterrupt: pass / finally: server.stop()
Stop ==
    /\ pc = "started"
    /\ \E stopped \in StopOutcomes :
         /\ stopped = Returned
         /\ calls' = Append(calls, "stop")
         /\ Finish(AfterStop(start_result))
    /\ UNCHANGED <<runs, cwd, sys_path, sys_modules, setups, app,
                   server_args, server, start_result, string, result>>

\* main() has ended and its frame is gone; the process state stays.
Return ==
    /\ pc = "done"
    /\ pc' = "idle"
    /\ app' = Unbound /\ server_args' = None /\ server' = None
    /\ calls' = <<>> /\ start_result' = None /\ outcome' = None
    /\ UNCHANGED <<runs, args, raw_args, cwd, sys_path, sys_modules, setups,
                   string, result>>

Init ==
    /\ pc = "idle"
    /\ runs = 0
    /\ args = None
    /\ raw_args = None
    /\ cwd = <<>>
    /\ sys_path \in {<<Lib>>, <<Lib, <<"a">>>>}
    /\ sys_modules = {}
    /\ setups = <<>>
    /\ app = Unbound
    /\ server_args = None
    /\ server = None
    /\ calls = <<>>
    /\ start_result = None
    /\ outcome = None
    /\ string = None
    /\ result = None

Next == ParseArgs \/ EnvSetup \/ Resolve \/ Construct \/ Start \/ Stop \/ Return

Spec == Init /\ [][Next]_vars

\* ------------------------------------------- the converters on their own

BindAddr ==
    /\ string # None
    /\ result = None
    /\ result' = [of |-> "wsgi_bind_addr", returned |-> wsgi_bind_addr(string.value)]
    /\ UNCHANGED <<pc, runs, args, raw_args, cwd, sys_path, sys_modules,
                   setups, app, server_args, server, calls, start_result,
                   outcome, string>>

AppPath ==
    /\ string # None
    /\ result = None
    /\ result' = [of |-> "wsgi_app_path", returned |-> wsgi_app_path(string.value)]
    /\ UNCHANGED <<pc, runs, args, raw_args, cwd, sys_path, sys_modules,
                   setups, app, server_args, server, calls, start_result,
                   outcome, string>>

InitStrings ==
    /\ pc = "idle"
    /\ runs = 0
    /\ args = None
    /\ raw_args = None
    /\ cwd = <<>>
    /\ sys_path = <<Lib>>
    /\ sys_modules = {}
    /\ setups = <<>>
    /\ app = Unbound
    /\ server_args = None
    /\ server = None
    /\ calls = <<>>
    /\ start_result = None
    /\ outcome = None
    /\ string \in {PyStr(s) : s \in Strings}
    /\ result = None

NextStrings == BindAddr \/ AppPath

SpecStrings == InitStrings /\ [][NextStrings]_vars

\* ------------------------------------------------------------- properties

IsStartError(how) == how.kind = "raise" /\ how.exc # "KeyboardInterrupt"

\* C1: once start() has been invoked, stop() is invoked exactly once before
\* main() returns or raises, however start() ended; stop() is never invoked
\* more than once nor before start().
C1_StopExactlyOnce ==
    /\ Occurrences(calls, "stop") <= 1
    /\ \A i \in 1..Len(calls) :
         calls[i] = "stop" => \E j \in 1..(i - 1) : calls[j] = "start"
    /\ (pc = "done" /\ Occurrences(calls, "start") > 0) =>
         Occurrences(calls, "stop") = 1

C1_Witness ==
    /\ pc = "done"
    /\ start_result = Raise("OSError")
    /\ calls = <<"Server", "start", "stop">>

\* C2: when main() ends after start(), stop() was the last call; an
\* interrupt raised by start() makes main() return normally, any other
\* error raised by start() leaves main() unchanged.
C2_OutcomeFollowsStart ==
    (pc = "done" /\ start_result # None) =>
        /\ calls[Len(calls)] = "stop"
        /\ start_result = Raise("KeyboardInterrupt") => outcome = Returned
        /\ IsStartError(start_result) => outcome = start_result

C2_Witness ==
    /\ pc = "done"
    /\ start_result = Raise("KeyboardInterrupt")
    /\ outcome = Returned
    /\ calls = <<"Server", "start", "stop">>

\* C3 as stated: an error raised by the constructor or by start() leaves
\* main() only after stop() has been invoked.
C3_StopOnEveryErrorPath ==
    (pc = "done" /\ outcome.kind = "raise" /\ Occurrences(calls, "Server") > 0) =>
        Occurrences(calls, "stop") > 0

\* C3 amended: an error leaves main() after stop() exactly when start() had
\* been invoked; an error of the constructor leaves main() with Server()
\* the only call made, stop() not invoked.
C3_StopOnlyAfterStart ==
    (pc = "done" /\ outcome.kind = "raise") =>
        /\ Occurrences(calls, "stop") =
             (IF Occurrences(calls, "start") > 0 THEN 1 ELSE 0)
        /\ Occurrences(calls, "start") > 0 => calls[Len(calls)] = "stop"
        /\ outcome = Raise("ServerError") => calls = <<"Server">>

C3_Witness ==
    /\ pc = "done"
    /\ outcome = Raise("ServerError")
    /\ calls = <<"Server">>
    /\ server = None

ConfigOk(argv, kwargs) ==
    /\ \A f \in OptFlags : argv[f] = None => f \notin DOMAIN kwargs
    /\ \A k \in DOMAIN kwargs : kwargs[k] # None
    /\ "_wsgi_app" \notin DOMAIN kwargs
    /\ "_chdir" \notin DOMAIN kwargs
    /\ {"wsgi_app", "bind_addr"} \subseteq DOMAIN kwargs
    /\ kwargs["wsgi_app"] = [kind |-> "callable"]

\* C4: whatever options the command line supplies, the keyword arguments
\* Server() is called with hold no option left unset, no value None, neither
\* _wsgi_app nor _chdir, and always wsgi_app (the callable) and bind_addr.
C4_SparseConfig ==
    [][(pc = "resolved" /\ pc' # "resolved") => ConfigOk(args, server_args')]_vars

C4_Witness ==
    /\ pc = "constructed"
    /\ args["bind_addr"] = None
    /\ DOMAIN server_args = {"wsgi_app", "bind_addr", "numthreads", "server_name"}

\* C5: a locator that evaluates to None ends main() with NameError, one that
\* evaluates to a value that is not callable with TypeError, and in both
\* cases no Server is constructed, started or stopped.
C5_LocatorErrors ==
    /\ (app = None \/ app.kind = "noncallable") =>
         (pc = "done" /\ calls = <<>> /\ server = None)
    /\ (pc = "done" /\ app = None) => outcome = Raise("NameError")
    /\ (pc = "done" /\ app.kind = "noncallable") => outcome = Raise("TypeError")

C5_Witness ==
    /\ pc = "done"
    /\ app = None
    /\ outcome = Raise("NameError")
    /\ calls = <<>>

\* C6: the step in which main() ends with a usage error changes neither the
\* working directory nor the search path nor the imported modules, and no
\* Server has been constructed, started or stopped.
C6_UsageErrorNoEffect ==
    [][(pc = "idle" /\ outcome' = Raise("SystemExit")) =>
          /\ cwd' = cwd
          /\ sys_path' = sys_path
          /\ sys_modules' = sys_modules
          /\ app' = Unbound
          /\ server' = None
          /\ calls' = <<>>]_vars

C6_Witness ==
    /\ pc = "done"
    /\ outcome = Raise("SystemExit")
    /\ runs = 2
    /\ Len(setups) = 1

\* C7: after the environment setup the directory occurs exactly once in the
\* search path; it is put in front when it was absent, and a setup for a
\* directory an earlier setup was made for leaves the list as it was.
C7_SetupIdempotent ==
    [][(pc = "parsed" /\ pc' = "env") =>
          /\ Occurrences(sys_path', cwd') = 1
          /\ Occurrences(sys_path, cwd') = 0 => sys_path' = <<cwd'>> \o sys_path
          /\ Occurrences(setups, cwd') > 0 => sys_path' = sys_path]_vars

C7_Witness ==
    /\ pc = "env"
    /\ Len(setups) = 2
    /\ setups[1] = setups[2]
    /\ Occurrences(sys_path, cwd) = 1

Colons(s) == {i \in 1..Len(s) : s[i] = ":"}

LastColon(s) == CHOOSE i \in Colons(s) : \A j \in Colons(s) : j <= i

AllDigits(s) == Len(s) > 0 /\ \A k \in 1..Len(s) : s[k] \in Digits

RECURSIVE Power10(_)
Power10(n) == IF n = 0 THEN 1 ELSE 10 * Power10(n - 1)

RECURSIVE Decimal(_)
\* The number a string of digits denotes, digit by digit from the left.
Decimal(s) ==
    IF Len(s) = 0 THEN 0
    ELSE DigitVal(s[1]) * Power10(Len(s) - 1) + Decimal(Slice(s, 2, Len(s)))

BindResult == result # None /\ result.of = "wsgi_bind_addr"

HostPort(host, digits) == [kind |-> "tuple", addr |-> host, port |-> Decimal(digits)]

\* "<host>:<digits>" with no colon in the host: one colon, digits after it.
HostDigits(s) ==
    /\ Cardinality(Colons(s)) = 1
    /\ AllDigits(Slice(s, LastColon(s) + 1, Len(s)))

\* C8 as stated: every string "<host>:<digits>" whose host has no colon
\* gives (host, value of digits).
C8_HostPortAnyHost ==
    (BindResult /\ HostDigits(string.value)) =>
        LET s == string.value
        IN  result.returned =
                HostPort(Slice(s, 1, LastColon(s) - 1), Slice(s, LastColon(s) + 1, Len(s)))

\* C8 amended: every string "<host>:<digits>" whose host is not empty and
\* has neither a colon nor a whitespace character gives (host, value of
\* digits).
C8_HostPort ==
    (/\ BindResult
     /\ HostDigits(string.value)
     /\ LastColon(string.value) > 1
     /\ \A k \in 1..(LastColon(string.value) - 1) : string.value[k] \notin Whitespace) =>
        LET s == string.value
        IN  result.returned =
                HostPort(Slice(s, 1, LastColon(s) - 1), Slice(s, LastColon(s) + 1, Len(s)))

C8_Witness ==
    /\ BindResult
    /\ string.value = <<"a", ":", "0", "7">>
    /\ result.returned = [kind |-> "tuple", addr |-> <<"a">>, port |-> 7]

\* C9 as stated: a string with a colon past the first one, or with a colon
\* but no digits after the last one up to the end, is returned unchanged.
C9_ExtraColonsAreSocketPath ==
    (/\ BindResult
     /\ \/ Cardinality(Colons(string.value)) >= 2
        \/ /\ Colons(string.value) # {}
           /\ ~AllDigits(Slice(string.value, LastColon(string.value) + 1,
                               Len(string.value)))) =>
        result.returned = [kind |-> "str", value |-> string.value]

\* The string without the newline it may end in.
Chomp(s) ==
    IF Len(s) > 0 /\ s[Len(s)] = "\n" THEN Slice(s, 1, Len(s) - 1) ELSE s

\* s, a final newline apart, is a non-empty prefix free of whitespace, a
\* colon, and digits up to the end.
EndsInPort(s) ==
    LET c == Chomp(s)
    IN  /\ Colons(c) # {}
        /\ LastColon(c) > 1
        /\ \A k \in 1..(LastColon(c) - 1) : c[k] \notin Whitespace
        /\ AllDigits(Slice(c, LastColon(c) + 1, Len(c)))

\* C9 amended: a string is returned unchanged exactly when it does not end
\* in ":<digits>" after a non-empty prefix free of whitespace; when it does,
\* colons inside the prefix do not matter: the host is all that precedes the
\* last colon ("a::0" gives ("a:", 0)).
C9_SocketPathFallback ==
    BindResult =>
        LET s == string.value
            c == Chomp(s)
        IN  IF EndsInPort(s)
            THEN result.returned =
                    HostPort(Slice(c, 1, LastColon(c) - 1),
                             Slice(c, LastColon(c) + 1, Len(c)))
            ELSE result.returned = [kind |-> "str", value |-> s]

C9_Witness ==
    /\ BindResult
    /\ string.value = <<"a", ":", ":", "0">>
    /\ result.returned = [kind |-> "tuple", addr |-> <<"a", ":">>, port |-> 0]

\* C10 as stated: the bind target Server() is called with is a socket path
\* or a (host, port) pair with the port in 0..65535.
C10_PortInRange ==
    server_args # None =>
        \/ server_args["bind_addr"].kind = "str"
        \/ /\ server_args["bind_addr"].kind = "tuple"
           /\ server_args["bind_addr"].port \in 0..65535

====
